---- MODULE Spec2Model ----
(***************************************************************************)
(* State-machine model of src/hvac2.py: a FastAPI bridge between HTTP      *)
(* requests and one shared Modbus RTU client.                              *)
(*                                                                         *)
(* Every endpoint is a synchronous `def`, so each request (and each        *)
(* background task) runs on a worker of the server's thread pool.  A       *)
(* worker's code is cut at the calls into modbus_client, which block: one  *)
(* action runs the code up to the call, the next one runs it from the      *)
(* call's return.  Nothing in the source takes a lock.                     *)
(***************************************************************************)
EXTENDS Integers, Sequences, FiniteSets

VARIABLES
    is_connected,   \* hvac2.py:32, result of modbus_client.connect()
    bus,            \* transactions in progress on modbus_client
    bulk_results,   \* hvac2.py:141, dict as a set of <<key, value>> pairs
    pc,             \* per worker: where its handler / background task stands
    op,             \* per worker: the endpoint it serves (or served last)
    args,           \* per worker: the arguments of the running function
    i,              \* per worker: loop index of the running bulk function
    results,        \* per worker: fetch_bulk_data's local list `results`
    local,          \* per worker: get_device_data's locals read so far
    vent,           \* per worker: fetch_bulk_data's vent_from_temp / _speed
    resp,           \* per worker: the HTTP response body returned
    log,            \* per worker: bus transactions its request has issued
    faults,         \* per worker: how many of them failed (error or raise)
    last_reply,     \* per worker: kind of the latest transport reply ("none" before any)
    runs_done,      \* number of bulk status runs that reached line 198
    completed       \* the `results` of the run that reached line 198 last

vars == <<is_connected, bus, bulk_results, pc, op, args, i, results, local,
          vent, resp, log, faults, last_reply, runs_done, completed>>

----------------------------------------------------------------------------
(* Bounds of the model. *)

NWorkers == 2
MaxBatch == 2
MaxRuns == 2

Workers == 1..NWorkers

----------------------------------------------------------------------------
(* Python values. *)

None == <<>>
Some(v) == <<v>>

\* int(x / d + 1) for integers x and d > 0: Python's `/` is true division
\* and int() truncates toward zero.
PyIntDivPlus1(x, d) ==
    LET n == x + d
    IN  IF n >= 0 THEN n \div d ELSE -((-n) \div d)

\* f"{value / 10:.1f}": the decimal with one digit after the point.
Fmt1f(value) ==
    LET a == IF value >= 0 THEN value ELSE -value
    IN  [neg |-> value < 0, whole |-> a \div 10, tenth |-> a % 10]

\* registers[0] / 10
RegDiv10(r) == [whole |-> r \div 10, tenth |-> r % 10]

Decimal(n) == [whole |-> n, tenth |-> 0]

----------------------------------------------------------------------------
(* The transport: modbus_client, one shared handle. *)

WriteCoilTx(address, value, slave_id) ==
    [fn |-> "write_coil", address |-> address, value |-> value, slave |-> slave_id]

WriteRegisterTx(address, value, slave_id) ==
    [fn |-> "write_register", address |-> address, value |-> value, slave |-> slave_id]

ReadDiscreteTx(address, slave_id) ==
    [fn |-> "read_discrete_inputs", address |-> address, slave |-> slave_id]

ReadInputTx(address, slave_id) ==
    [fn |-> "read_input_registers", address |-> address, count |-> 1, slave |-> slave_id]

\* A call into modbus_client returns a response, returns an error response
\* (isError() true, or a falsy result), or raises ModbusException.
WriteReplies == {[kind |-> "ok"], [kind |-> "error"], [kind |-> "exception"]}

ReadReplies(vals) ==
    {[kind |-> "ok", val |-> v] : v \in vals}
        \cup {[kind |-> "error"], [kind |-> "exception"]}

\* The transactions in progress once worker t has entered a call into
\* modbus_client: the call is made at once, whoever else is inside one.
Entered(b, t, tx) == b \cup {[by |-> t, tx |-> tx]}

\* The transactions in progress once worker t's call has returned.
Left(b, t) == {x \in b : x.by # t}

\* Mutant: the helper returns True without looking at isError().
WriteResultIgnoresIsError(reply) == reply.kind # "exception"

\* write_coil / write_register: the bool they return for a transport reply.
WriteResult(reply) ==
    IF reply.kind = "exception" THEN FALSE ELSE reply.kind # "error"

----------------------------------------------------------------------------
(* Requests. *)

\* Mutant: the last elif written as a plain else.
BranchLastElifAsElse(action) ==
    CASE action = "coil" -> "write_coil"
      [] action = "temp" -> "write_register"
      [] OTHER -> "write_register"

\* Mutant: the temp branch calls write_coil.
BranchTempWritesCoil(action) ==
    CASE action = "coil" -> "write_coil"
      [] action = "temp" -> "write_coil"
      [] action = "fan_speed" -> "write_register"
      [] OTHER -> "else"

\* The if / elif chain on cmd.action: the helper the branch taken calls.
Branch(action) ==
    CASE action = "coil" -> "write_coil"
      [] action = "temp" -> "write_register"
      [] action = "fan_speed" -> "write_register"
      [] OTHER -> "else"

IsRecognised(action) == Branch(action) # "else"

\* The transport reply counts as a failed transaction.
Failed(reply) == reply.kind # "ok"

\* Mutant: the connection check is missing.
ShortCircuitMissing == FALSE

\* `if not is_connected:` of control_device and bulk_control_device.
ShortCircuit == ~is_connected

NoResponse == [pending |-> TRUE]

\* An idle worker takes a request.
Fresh(t, name, a) ==
    /\ pc[t] = "idle"
    /\ op' = [op EXCEPT ![t] = name]
    /\ args' = [args EXCEPT ![t] = a]

NotConnectedResponse ==
    [status |-> "error", message |-> [text |-> "Modbus device not connected"]]

InvalidActionResponse ==
    [status |-> "error", message |-> [text |-> "Invalid action specified"]]

ControlMessage(cmd) ==
    CASE cmd.action = "coil" ->
            [text |-> "Coil at address {} set to {}",
             address |-> cmd.address, value |-> Some(cmd.value)]
      [] cmd.action = "temp" ->
            [text |-> "Temperature at address {} set to {}C",
             address |-> cmd.address, value |-> Fmt1f(cmd.value)]
      [] cmd.action = "fan_speed" ->
            [text |-> "Fan speed at address {} set to {}",
             address |-> cmd.address, value |-> Some(cmd.value)]

\* The bus write the branch taken for cmd issues.
CommandTx(cmd) ==
    IF Branch(cmd.action) = "write_coil"
    THEN WriteCoilTx(cmd.address, cmd.value, cmd.slave_id)
    ELSE WriteRegisterTx(cmd.address, cmd.value, cmd.slave_id)

----------------------------------------------------------------------------
(* POST /api/control *)

\* control_device up to its call of write_coil / write_register, or to its
\* return when it makes none.
ControlDevice(t, cmd) ==
    /\ Fresh(t, "control_device", cmd)
    /\ IF ShortCircuit
       THEN /\ resp' = [resp EXCEPT ![t] = NotConnectedResponse]
            /\ pc' = [pc EXCEPT ![t] = "done"]
            /\ log' = [log EXCEPT ![t] = <<>>]
            /\ bus' = bus
       ELSE IF IsRecognised(cmd.action)
       THEN /\ resp' = [resp EXCEPT ![t] = NoResponse]
            /\ pc' = [pc EXCEPT ![t] = "control_write"]
            /\ bus' = Entered(bus, t, CommandTx(cmd))
            /\ log' = [log EXCEPT ![t] = <<CommandTx(cmd)>>]
       ELSE /\ resp' = [resp EXCEPT ![t] = InvalidActionResponse]
            /\ pc' = [pc EXCEPT ![t] = "done"]
            /\ log' = [log EXCEPT ![t] = <<>>]
            /\ bus' = bus
    /\ UNCHANGED <<is_connected, bulk_results, i, results, local, vent,
                   faults, last_reply, runs_done, completed>>

\* control_device from the return of its write to its own return.
ControlDeviceReturn(t, reply) ==
    /\ pc[t] = "control_write"
    /\ bus' = Left(bus, t)
    /\ resp' = [resp EXCEPT ![t] =
                  [status |-> IF WriteResult(reply) THEN "success" ELSE "error",
                   message |-> ControlMessage(args[t])]]
    /\ pc' = [pc EXCEPT ![t] = "done"]
    /\ faults' = [faults EXCEPT ![t] = IF Failed(reply) THEN @ + 1 ELSE @]
    /\ last_reply' = [last_reply EXCEPT ![t] = reply.kind]
    /\ UNCHANGED <<is_connected, bulk_results, op, args, i, results, local,
                   vent, log, runs_done, completed>>

----------------------------------------------------------------------------
(* POST /api/control/bulk and its background task *)

AcceptedResponse(commands) ==
    [status |-> "success",
     message |-> [text |-> "{} commands are being processed in the background",
                  count |-> Len(commands)]]

\* bulk_control_device: the response is returned and the task it added
\* starts on the worker.
BulkControlDevice(t, commands) ==
    /\ Fresh(t, "bulk_control_device", commands)
    /\ log' = [log EXCEPT ![t] = <<>>]
    /\ IF ShortCircuit
       THEN /\ resp' = [resp EXCEPT ![t] = NotConnectedResponse]
            /\ pc' = [pc EXCEPT ![t] = "done"]
            /\ i' = i
       ELSE /\ resp' = [resp EXCEPT ![t] = AcceptedResponse(commands)]
            /\ pc' = [pc EXCEPT ![t] = "bulk_commands"]
            /\ i' = [i EXCEPT ![t] = 1]
    /\ UNCHANGED <<is_connected, bus, bulk_results, results, local, vent,
                   faults, last_reply, runs_done, completed>>

\* Mutant: the loop walks the list backwards.
CommandAtReversed(commands, k) == commands[Len(commands) - k + 1]

\* `for cmd in commands`: the command of the k-th iteration.
CommandAt(commands, k) == commands[k]

\* Mutant: the loop ends at the first write that fails.
AfterBulkWriteStopsOnFailure(reply) ==
    IF reply.kind = "ok" THEN "bulk_commands" ELSE "done"

\* Where process_bulk_commands goes once a write has returned `reply`:
\* the bool is dropped and the loop goes on.
AfterBulkWrite(reply) == "bulk_commands"

\* process_bulk_commands: one iteration up to its write, or the loop's end.
ProcessBulkCommands(t) ==
    /\ pc[t] = "bulk_commands"
    /\ IF i[t] > Len(args[t])
       THEN /\ pc' = [pc EXCEPT ![t] = "done"]
            /\ i' = [i EXCEPT ![t] = 0]
            /\ UNCHANGED <<bus, log>>
       ELSE LET cmd == CommandAt(args[t], i[t])
            IN  IF IsRecognised(cmd.action)
                THEN /\ pc' = [pc EXCEPT ![t] = "bulk_write"]
                     /\ bus' = Entered(bus, t, CommandTx(cmd))
                     /\ log' = [log EXCEPT ![t] = Append(@, CommandTx(cmd))]
                     /\ i' = i
                ELSE /\ i' = [i EXCEPT ![t] = @ + 1]
                     /\ UNCHANGED <<pc, bus, log>>
    /\ UNCHANGED <<is_connected, bulk_results, op, args, results, local, vent,
                   resp, faults, last_reply, runs_done, completed>>

\* process_bulk_commands from the return of a write to the next iteration.
ProcessBulkCommandsReturn(t, reply) ==
    /\ pc[t] = "bulk_write"
    /\ bus' = Left(bus, t)
    /\ pc' = [pc EXCEPT ![t] = AfterBulkWrite(reply)]
    /\ i' = [i EXCEPT ![t] = IF AfterBulkWrite(reply) = "done" THEN 0 ELSE @ + 1]
    /\ faults' = [faults EXCEPT ![t] = IF Failed(reply) THEN @ + 1 ELSE @]
    /\ last_reply' = [last_reply EXCEPT ![t] = reply.kind]
    /\ UNCHANGED <<is_connected, bulk_results, op, args, results, local, vent,
                   resp, log, runs_done, completed>>

----------------------------------------------------------------------------
(* GET /api/status, also called by fetch_bulk_data *)

SimulatedStatus ==
    [Status |-> 1, Temp |-> Decimal(20), Speed |-> 1, outside_temp |-> 66]

ReadErrorStatus ==
    [Status |-> "error", message |-> "Failed to read from Modbus device"]

VentBlock == 156
TempBase == 1
SpeedBase == 36

VentFromTemp(temp) == PyIntDivPlus1(temp - TempBase, VentBlock)

VentFromSpeed(speed) == PyIntDivPlus1(speed - SpeedBase, VentBlock)

\* Mutant: the vent number is taken from the temp address alone.
VentNumberFromTempOnly(temp, speed) == Some(VentFromTemp(temp))

\* Cross verify both formulas.
VentNumber(temp, speed) ==
    IF VentFromTemp(temp) = VentFromSpeed(speed)
    THEN Some(VentFromTemp(temp))
    ELSE None

ErrorEntry(slave_id, message) ==
    [slave_id |-> slave_id, Status |-> "error", message |-> message,
     vent_number |-> None]

\* Mutant: the error variant is read with .get(), so no KeyError is raised
\* and the entry is built as for a good read.
FetchEntryNoKeyError(request, k, status) ==
    [slave_id |-> request.slave_id[k],
     Status |-> status.Status,
     Temp |-> None,
     Speed |-> None,
     vent_number |-> VentNumber(request.temp[k], request.speed[k])]

\* The dict fetch_bulk_data appends for query k once get_device_data has
\* returned `status`: status["Temp"] raises KeyError on the error variant,
\* which the except branch turns into an error entry.
FetchEntry(request, k, status) ==
    IF "Temp" \in DOMAIN status
    THEN [slave_id |-> request.slave_id[k],
          Status |-> status.Status,
          Temp |-> status.Temp,
          Speed |-> status.Speed,
          vent_number |-> VentNumber(request.temp[k], request.speed[k])]
    ELSE ErrorEntry(request.slave_id[k], "'Temp'")

\* Mutant: the except branch skips the query instead of recording it.
AppendedSkipsErrors(res, entry) ==
    IF "message" \in DOMAIN entry THEN res ELSE Append(res, entry)

\* results.append(entry), in the try body and in the except branch alike.
Appended(res, entry) == Append(res, entry)

QueryAt(request, k) ==
    [slave_id |-> request.slave_id[k], on |-> request.on[k],
     temp |-> request.temp[k], speed |-> request.speed[k]]

\* The query worker t's get_device_data is serving.
CurrentQuery(t) ==
    IF op[t] = "get_device_data" THEN args[t] ELSE QueryAt(args[t], i[t])

\* Mutant: the key is set only when absent (setdefault).
StoreKeepsFirst(d, key, value) ==
    IF \E p \in d : p[1] = key THEN d ELSE d \cup {<<key, value>>}

\* Mutant: the new list is added to the one stored under the key.
StoreExtends(d, key, value) ==
    IF \E p \in d : p[1] = key
    THEN {<<p[1], IF p[1] = key THEN p[2] \o value ELSE p[2]>> : p \in d}
    ELSE d \cup {<<key, value>>}

\* bulk_results[key] = value
Store(d, key, value) == {p \in d : p[1] # key} \cup {<<key, value>>}

\* Mutant: the list is stored before the loop and filled in place.
PublishedInLoopShared(d, partial) ==
    {p \in d : p[1] # "last_run"} \cup {<<"last_run", partial>>}

\* What fetch_bulk_data makes visible in bulk_results while the loop is
\* still running: nothing, `results` is a local list until line 198.
PublishedInLoop(d, partial) == d

\* get_device_data returns `status` to its caller: the endpoint returns it
\* as the response; fetch_bulk_data (lines 170-196) computes the vent
\* numbers, appends the entry and sleeps.
Returned(t, caller, request, k, status) ==
    /\ local' = [local EXCEPT ![t] = None]
    /\ IF caller = "get_device_data"
       THEN /\ resp' = [resp EXCEPT ![t] = status]
            /\ pc' = [pc EXCEPT ![t] = "done"]
            /\ UNCHANGED <<results, i, vent, bulk_results>>
       ELSE /\ results' = [results EXCEPT ![t] =
                             Appended(@, FetchEntry(request, k, status))]
            /\ bulk_results' = PublishedInLoop(bulk_results, results'[t])
            /\ resp' = resp
            /\ vent' = [vent EXCEPT ![t] =
                          Some([i |-> k,
                                vent_from_temp |-> VentFromTemp(request.temp[k]),
                                vent_from_speed |-> VentFromSpeed(request.speed[k])])]
            /\ i' = [i EXCEPT ![t] = k + 1]
            /\ pc' = [pc EXCEPT ![t] = "fetch"]

\* get_device_data up to its first read, or to its return when the
\* transport is not connected.  lg is the caller's log so far.
DeviceDataCall(t, caller, request, k, q, lg) ==
    IF ~is_connected
    THEN /\ Returned(t, caller, request, k, SimulatedStatus)
         /\ bus' = bus
         /\ log' = [log EXCEPT ![t] = lg]
    ELSE /\ bus' = Entered(bus, t, ReadDiscreteTx(q.on, q.slave_id))
         /\ log' = [log EXCEPT ![t] = Append(lg, ReadDiscreteTx(q.on, q.slave_id))]
         /\ pc' = [pc EXCEPT ![t] = "read_discrete"]
         /\ local' = [local EXCEPT ![t] = None]
         /\ UNCHANGED <<results, i, vent, bulk_results>>
         /\ resp' = [resp EXCEPT ![t] = IF caller = "get_device_data"
                                         THEN NoResponse ELSE @]

GetDeviceData(t, q) ==
    /\ Fresh(t, "get_device_data", q)
    /\ DeviceDataCall(t, "get_device_data", q, 0, q, <<>>)
    /\ UNCHANGED <<is_connected, faults, last_reply, runs_done, completed>>

\* Mutant: a failed read is reported as -1.
FieldOfMinusOne(reply) == IF reply.kind = "ok" THEN reply.val ELSE -1

\* `x if result and not result.isError() else 0`, x the bit or register read
FieldOf(reply) == IF reply.kind = "ok" THEN reply.val ELSE 0

\* From the return of read_discrete_inputs to the temperature read.
ReadDiscreteReturn(t, reply) ==
    /\ pc[t] = "read_discrete"
    /\ IF reply.kind = "exception"
       THEN /\ Returned(t, op[t], args[t], i[t], ReadErrorStatus)
            /\ bus' = Left(bus, t)
            /\ log' = log
       ELSE LET q == CurrentQuery(t)
                tx == ReadInputTx(q.temp, q.slave_id)
            IN  /\ local' = [local EXCEPT ![t] = <<FieldOf(reply)>>]
                /\ bus' = Entered(Left(bus, t), t, tx)
                /\ log' = [log EXCEPT ![t] = Append(@, tx)]
                /\ pc' = [pc EXCEPT ![t] = "read_temp"]
                /\ UNCHANGED <<results, i, vent, resp, bulk_results>>
    /\ faults' = [faults EXCEPT ![t] = IF Failed(reply) THEN @ + 1 ELSE @]
    /\ last_reply' = [last_reply EXCEPT ![t] = reply.kind]
    /\ UNCHANGED <<is_connected, op, args, runs_done, completed>>

\* From the return of the temperature read to the speed read.
ReadTempReturn(t, reply) ==
    /\ pc[t] = "read_temp"
    /\ IF reply.kind = "exception"
       THEN /\ Returned(t, op[t], args[t], i[t], ReadErrorStatus)
            /\ bus' = Left(bus, t)
            /\ log' = log
       ELSE LET q == CurrentQuery(t)
                tx == ReadInputTx(q.speed, q.slave_id)
                temperature == IF reply.kind = "ok"
                               THEN RegDiv10(reply.val) ELSE Decimal(0)
            IN  /\ local' = [local EXCEPT ![t] = Append(@, temperature)]
                /\ bus' = Entered(Left(bus, t), t, tx)
                /\ log' = [log EXCEPT ![t] = Append(@, tx)]
                /\ pc' = [pc EXCEPT ![t] = "read_speed"]
                /\ UNCHANGED <<results, i, vent, resp, bulk_results>>
    /\ faults' = [faults EXCEPT ![t] = IF Failed(reply) THEN @ + 1 ELSE @]
    /\ last_reply' = [last_reply EXCEPT ![t] = reply.kind]
    /\ UNCHANGED <<is_connected, op, args, runs_done, completed>>

\* From the return of the speed read to get_device_data's return.
ReadSpeedReturn(t, reply) ==
    /\ pc[t] = "read_speed"
    /\ bus' = Left(bus, t)
    /\ log' = log
    /\ IF reply.kind = "exception"
       THEN Returned(t, op[t], args[t], i[t], ReadErrorStatus)
       ELSE Returned(t, op[t], args[t], i[t],
                     [Status |-> local[t][1],
                      Temp |-> local[t][2],
                      Speed |-> FieldOf(reply)])
    /\ faults' = [faults EXCEPT ![t] = IF Failed(reply) THEN @ + 1 ELSE @]
    /\ last_reply' = [last_reply EXCEPT ![t] = reply.kind]
    /\ UNCHANGED <<is_connected, op, args, runs_done, completed>>

----------------------------------------------------------------------------
(* POST /api/status/bulk, its background task, and the result store *)

NoResultsYet == {<<"message", "No results yet">>}

\* `bulk_results if bulk_results else {"message": "No results yet"}`
ResultsResponse(d) == IF d # {} THEN d ELSE NoResultsYet

StartedResponse(request) ==
    [message |-> "Bulk fetch started", slave_ids |-> request.slave_id]

\* Bulk status runs started so far.
RunsStarted ==
    runs_done
        + Cardinality({t \in Workers : pc[t] \in {"fetch", "read_discrete",
                                                   "read_temp", "read_speed"}
                                        /\ op[t] = "get_bulk_device_data"})

\* get_bulk_device_data: the response is returned and fetch_bulk_data
\* starts on the worker with an empty `results`.
GetBulkDeviceData(t, request) ==
    /\ RunsStarted < MaxRuns
    /\ Fresh(t, "get_bulk_device_data", request)
    /\ resp' = [resp EXCEPT ![t] = StartedResponse(request)]
    /\ pc' = [pc EXCEPT ![t] = "fetch"]
    /\ i' = [i EXCEPT ![t] = 1]
    /\ results' = [results EXCEPT ![t] = <<>>]
    /\ log' = [log EXCEPT ![t] = <<>>]
    /\ UNCHANGED <<is_connected, bus, bulk_results, local, vent, faults, last_reply,
                   runs_done, completed>>

\* Mutant: the loop runs over the shortest of the four arrays.
LoopEndShortest(request) ==
    CHOOSE n \in {Len(request.slave_id), Len(request.on),
                  Len(request.temp), Len(request.speed)} :
        \A m \in {Len(request.slave_id), Len(request.on),
                   Len(request.temp), Len(request.speed)} : n <= m

\* for i in range(len(request.slave_id)): the last index of the loop.
LoopEnd(request) == Len(request.slave_id)

\* on[i], temp[i] or speed[i] raises IndexError.
IndexMissing(request, k) ==
    \/ k > Len(request.on)
    \/ k > Len(request.temp)
    \/ k > Len(request.speed)

\* fetch_bulk_data: one iteration up to the first read of its
\* get_device_data call, or line 198 once the loop has ended.
FetchBulkData(t) ==
    /\ pc[t] = "fetch"
    /\ IF i[t] > LoopEnd(args[t])
       THEN /\ bulk_results' = Store(bulk_results, "last_run", results[t])
            /\ runs_done' = runs_done + 1
            /\ completed' = Some([results |-> results[t],
                                   slave_id |-> args[t].slave_id,
                                   request |-> args[t]])
            /\ pc' = [pc EXCEPT ![t] = "done"]
            /\ i' = [i EXCEPT ![t] = 0]
            /\ results' = [results EXCEPT ![t] = <<>>]
            /\ vent' = [vent EXCEPT ![t] = None]
            /\ UNCHANGED <<bus, log, local, resp>>
       ELSE /\ UNCHANGED <<runs_done, completed>>
            /\ IF IndexMissing(args[t], i[t])
               THEN /\ results' = [results EXCEPT ![t] =
                          Appended(@, ErrorEntry(args[t].slave_id[i[t]],
                                                 "list index out of range"))]
                    /\ i' = [i EXCEPT ![t] = @ + 1]
                    /\ bulk_results' = PublishedInLoop(bulk_results, results'[t])
                    /\ UNCHANGED <<bus, log, local, resp, pc, vent>>
               ELSE DeviceDataCall(t, "fetch_bulk_data", args[t], i[t],
                                   QueryAt(args[t], i[t]), log[t])
    /\ UNCHANGED <<is_connected, op, args, faults, last_reply>>

\* get_bulk_results
GetBulkResults(t) ==
    /\ Fresh(t, "get_bulk_results", None)
    /\ resp' = [resp EXCEPT ![t] = ResultsResponse(bulk_results)]
    /\ pc' = [pc EXCEPT ![t] = "done"]
    /\ log' = [log EXCEPT ![t] = <<>>]
    /\ UNCHANGED <<is_connected, bus, bulk_results, i, results, local, vent,
                   faults, last_reply, runs_done, completed>>

----------------------------------------------------------------------------
(* The server *)

\* The handler has returned and its background task, if any, has ended:
\* the worker goes back to the pool and its frame is gone.
Deliver(t) ==
    /\ pc[t] = "done"
    /\ pc' = [pc EXCEPT ![t] = "idle"]
    /\ op' = [op EXCEPT ![t] = "none"]
    /\ args' = [args EXCEPT ![t] = None]
    /\ resp' = [resp EXCEPT ![t] = NoResponse]
    /\ log' = [log EXCEPT ![t] = <<>>]
    /\ faults' = [faults EXCEPT ![t] = 0]
    /\ last_reply' = [last_reply EXCEPT ![t] = "none"]
    /\ UNCHANGED <<is_connected, bus, bulk_results, i, results, local, vent,
                   runs_done, completed>>

Init ==
    /\ is_connected \in BOOLEAN
    /\ bus = {}
    /\ bulk_results = {}
    /\ pc = [t \in Workers |-> "idle"]
    /\ op = [t \in Workers |-> "none"]
    /\ args = [t \in Workers |-> None]
    /\ i = [t \in Workers |-> 0]
    /\ results = [t \in Workers |-> <<>>]
    /\ local = [t \in Workers |-> None]
    /\ vent = [t \in Workers |-> None]
    /\ resp = [t \in Workers |-> NoResponse]
    /\ log = [t \in Workers |-> <<>>]
    /\ faults = [t \in Workers |-> 0]
    /\ last_reply = [t \in Workers |-> "none"]
    /\ runs_done = 0
    /\ completed = None

----------------------------------------------------------------------------
(* Inputs *)

SeqsUpTo(S, n) == UNION {[1..k -> S] : k \in 0..n}

CommandsOver(actions, values, addresses, slaves) ==
    [action : actions, value : values, address : addresses, slave_id : slaves]

QueriesOver(slaves, ons, temps, speeds) ==
    [slave_id : slaves, on : ons, temp : temps, speed : speeds]

\* The parallel arrays of a request for the queries qs.
RequestOf(qs) ==
    [slave_id |-> [k \in 1..Len(qs) |-> qs[k].slave_id],
     on |-> [k \in 1..Len(qs) |-> qs[k].on],
     temp |-> [k \in 1..Len(qs) |-> qs[k].temp],
     speed |-> [k \in 1..Len(qs) |-> qs[k].speed]]

----------------------------------------------------------------------------
(* Spec: every endpoint, on concurrent workers, over the fewest inputs *)

Commands == CommandsOver({"coil"}, {1}, {7}, {1})

Batches == {<<>>} \cup {<<cmd>> : cmd \in Commands}

Queries == QueriesOver({1}, {0}, {1}, {36})

Requests == {RequestOf(<<>>)} \cup {RequestOf(<<q>>) : q \in Queries}

BitReplies == {[kind |-> "ok", val |-> 1], [kind |-> "exception"]}

RegisterReplies == {[kind |-> "ok", val |-> 205], [kind |-> "exception"]}

Next ==
    \E t \in Workers :
        \/ \E cmd \in Commands : ControlDevice(t, cmd)
        \/ \E reply \in WriteReplies : ControlDeviceReturn(t, reply)
        \/ \E commands \in Batches : BulkControlDevice(t, commands)
        \/ ProcessBulkCommands(t)
        \/ \E reply \in WriteReplies : ProcessBulkCommandsReturn(t, reply)
        \/ \E q \in Queries : GetDeviceData(t, q)
        \/ \E reply \in BitReplies : ReadDiscreteReturn(t, reply)
        \/ \E reply \in RegisterReplies : ReadTempReturn(t, reply)
        \/ \E reply \in RegisterReplies : ReadSpeedReturn(t, reply)
        \/ \E request \in Requests : GetBulkDeviceData(t, request)
        \/ FetchBulkData(t)
        \/ GetBulkResults(t)
        \/ Deliver(t)

Spec == Init /\ [][Next]_vars

----------------------------------------------------------------------------
(* SpecStore: bulk status runs and readers of the store, concurrent *)

StoreRequests ==
    {RequestOf(<<>>)} \cup {RequestOf(<<q, r>>) : q \in Queries, r \in Queries}

NextStore ==
    \E t \in Workers :
        \/ \E request \in StoreRequests : GetBulkDeviceData(t, request)
        \/ FetchBulkData(t)
        \/ \E reply \in BitReplies : ReadDiscreteReturn(t, reply)
        \/ \E reply \in RegisterReplies : ReadTempReturn(t, reply)
        \/ \E reply \in RegisterReplies : ReadSpeedReturn(t, reply)
        \/ GetBulkResults(t)
        \/ Deliver(t)

SpecStore == Init /\ [][NextStore]_vars

----------------------------------------------------------------------------
(* SpecControl: one worker, single and bulk control over many commands *)

ControlCommands ==
    CommandsOver({"coil", "temp", "fan_speed", "swing"}, {0, 205}, {7}, {1, 2})

BatchCommands ==
    CommandsOver({"coil", "temp", "fan_speed", "swing"}, {205}, {7}, {1, 2})

ControlBatches == SeqsUpTo(BatchCommands, MaxBatch)

NextControl ==
    \/ \E cmd \in ControlCommands : ControlDevice(1, cmd)
    \/ \E reply \in WriteReplies : ControlDeviceReturn(1, reply)
    \/ \E commands \in ControlBatches : BulkControlDevice(1, commands)
    \/ ProcessBulkCommands(1)
    \/ \E reply \in WriteReplies : ProcessBulkCommandsReturn(1, reply)
    \/ Deliver(1)

SpecControl == Init /\ [][NextControl]_vars

----------------------------------------------------------------------------
(* SpecVent: one worker, bulk status runs over addresses around the       *)
(* boundaries of the 156-address blocks, on both sides of zero            *)

VentOffsets == {-157, -156, -155, -1, 0, 1, 155, 156, 157}

VentQueries ==
    QueriesOver({1}, {0}, {TempBase + d : d \in VentOffsets},
                {SpeedBase + d : d \in VentOffsets})

VentRequests == {RequestOf(<<q>>) : q \in VentQueries}

NextVent ==
    \/ \E request \in VentRequests : GetBulkDeviceData(1, request)
    \/ FetchBulkData(1)
    \/ \E reply \in BitReplies : ReadDiscreteReturn(1, reply)
    \/ \E reply \in RegisterReplies : ReadTempReturn(1, reply)
    \/ \E reply \in RegisterReplies : ReadSpeedReturn(1, reply)
    \/ Deliver(1)

SpecVent == Init /\ [][NextVent]_vars

----------------------------------------------------------------------------
(* SpecStatus: one worker, single status reads and one bulk status run    *)
(* over two units, every read answered, refused or raised, and requests   *)
(* whose on, temp or speed array is one element short                     *)

MaxQueries == 2

\* Unit 1 with both addresses in block 1, unit 2 with the temp address in
\* block 1 and the speed address in block 2.
StatusQueries ==
    QueriesOver({1}, {0}, {TempBase}, {SpeedBase})
        \cup QueriesOver({2}, {0}, {TempBase}, {SpeedBase + VentBlock})

Front(s) == SubSeq(s, 1, Len(s) - 1)

\* The requests that differ from `request` in one array, one element short.
Shortened(request) ==
    {[request EXCEPT !.on = Front(@)],
     [request EXCEPT !.temp = Front(@)],
     [request EXCEPT !.speed = Front(@)]}

WellFormedRequests == {RequestOf(qs) : qs \in SeqsUpTo(StatusQueries, MaxQueries)}

StatusRequests ==
    WellFormedRequests
        \cup UNION {Shortened(r) : r \in {w \in WellFormedRequests : w.slave_id # <<>>}}

StatusBitReplies == ReadReplies({1})

StatusRegisterReplies == ReadReplies({205})

NextStatus ==
    \/ \E q \in StatusQueries : GetDeviceData(1, q)
    \/ \E request \in StatusRequests :
           runs_done = 0 /\ GetBulkDeviceData(1, request)
    \/ FetchBulkData(1)
    \/ \E reply \in StatusBitReplies : ReadDiscreteReturn(1, reply)
    \/ \E reply \in StatusRegisterReplies : ReadTempReturn(1, reply)
    \/ \E reply \in StatusRegisterReplies : ReadSpeedReturn(1, reply)
    \/ Deliver(1)

SpecStatus == Init /\ [][NextStatus]_vars

----------------------------------------------------------------------------
(* SpecLive: a batch on worker 1 beside a bulk status run on worker 2.    *)
(* The threads of the pool are scheduled fairly and every call into       *)
(* modbus_client returns (timeout=1), so a step of a started job that     *)
(* stays possible is eventually taken; requests need not keep arriving.   *)

LiveBatches == SeqsUpTo(Commands, MaxBatch)

NextLive ==
    \/ \E commands \in LiveBatches : BulkControlDevice(1, commands)
    \/ ProcessBulkCommands(1)
    \/ \E reply \in WriteReplies : ProcessBulkCommandsReturn(1, reply)
    \/ \E request \in StoreRequests : GetBulkDeviceData(2, request)
    \/ FetchBulkData(2)
    \/ \E reply \in BitReplies : ReadDiscreteReturn(2, reply)
    \/ \E reply \in RegisterReplies : ReadTempReturn(2, reply)
    \/ \E reply \in RegisterReplies : ReadSpeedReturn(2, reply)
    \/ \E t \in {1, 2} : Deliver(t)

Fairness ==
    /\ WF_vars(ProcessBulkCommands(1))
    /\ WF_vars(\E reply \in WriteReplies : ProcessBulkCommandsReturn(1, reply))
    /\ WF_vars(FetchBulkData(2))
    /\ WF_vars(\E reply \in BitReplies : ReadDiscreteReturn(2, reply))
    /\ WF_vars(\E reply \in RegisterReplies : ReadTempReturn(2, reply))
    /\ WF_vars(\E reply \in RegisterReplies : ReadSpeedReturn(2, reply))

SpecLive == Init /\ [][NextLive]_vars /\ Fairness

----------------------------------------------------------------------------
(* Properties *)

BusPcs == {"control_write", "bulk_write", "read_discrete", "read_temp", "read_speed"}

FetchPcs == {"fetch", "read_discrete", "read_temp", "read_speed"}

\* Worker t runs get_bulk_results in this step.
ReadsStore(t) == pc[t] = "idle" /\ op'[t] = "get_bulk_results"

\* The response that carries the last complete run.
LastRunResponse == {<<"last_run", completed[1].results>>}

\* C1: at most one transaction is in progress on modbus_client at any
\* time, whatever requests and background tasks run concurrently.
C1_BusMutualExclusion == Cardinality(bus) <= 1

\* C2: the store is one overwritten slot: it is empty until a bulk status
\* run completes and then holds exactly the results of the run completed
\* last; get_bulk_results answers "No results yet" before any run has
\* completed and exactly the last completed run's results afterwards.
C2_SingleSlot ==
    /\ [](bulk_results = IF completed = None THEN {} ELSE LastRunResponse)
    /\ [][\A t \in Workers :
            ReadsStore(t) =>
                resp'[t] = IF runs_done = 0 THEN NoResultsYet ELSE LastRunResponse]_vars

C2_Witness ==
    /\ runs_done = 2
    /\ \E t \in Workers :
          /\ op[t] = "get_bulk_results"
          /\ pc[t] = "done"
          /\ resp[t] = LastRunResponse
          /\ resp[t] = bulk_results

\* C3: whatever point a concurrent run has reached, get_bulk_results
\* returns either "No results yet" or a complete result list, one entry per
\* query of the run that produced it; never part of a run's list.
C3_NoPartialSnapshot ==
    [][\A t \in Workers :
          ReadsStore(t) =>
              \/ resp'[t] = NoResultsYet
              \/ /\ completed # None
                 /\ resp'[t] = LastRunResponse
                 /\ Len(completed[1].results) = Len(completed[1].slave_id)]_vars

C3_Witness ==
    \E t, u \in Workers :
        /\ op[t] = "get_bulk_results"
        /\ pc[t] = "done"
        /\ resp[t] # NoResultsYet
        /\ op[u] = "get_bulk_device_data"
        /\ pc[u] \in FetchPcs
        /\ Len(results[u]) >= 1
        /\ Len(results[u]) < Len(args[u].slave_id)

\* The address, value and unit of the writes a batch owes for its first n
\* commands, in submission order.
RECURSIVE WritesOwed(_, _)
WritesOwed(commands, n) ==
    IF n = 0
    THEN <<>>
    ELSE LET c == commands[n]
         IN  IF c.action \in {"coil", "temp", "fan_speed"}
             THEN Append(WritesOwed(commands, n - 1),
                         [address |-> c.address, value |-> c.value,
                          slave |-> c.slave_id])
             ELSE WritesOwed(commands, n - 1)

WritesIssued(lg) ==
    [k \in 1..Len(lg) |->
        [address |-> lg[k].address, value |-> lg[k].value, slave |-> lg[k].slave]]

\* Commands of worker t's batch that the loop has reached.
Reached(t) ==
    CASE pc[t] = "bulk_commands" -> i[t] - 1
      [] pc[t] = "bulk_write" -> i[t]
      [] OTHER -> Len(args[t])

\* C4: the background worker issues the writes of a batch in submission
\* order, exactly one for each command with a recognised action.
C4_BatchInSubmissionOrder ==
    \A t \in Workers :
        (is_connected /\ op[t] = "bulk_control_device") =>
            WritesIssued(log[t]) = WritesOwed(args[t], Reached(t))

C4_Witness ==
    \E t \in Workers :
        /\ op[t] = "bulk_control_device"
        /\ pc[t] = "done"
        /\ Len(args[t]) = 2
        /\ Len(log[t]) = 2
        /\ log[t][1] # log[t][2]

\* C5: a write that fails, or a command with an unrecognised action, does
\* not stop the batch: the loop goes on to the next command, and a batch
\* that has ended has issued a write for every recognised command.
C5_BatchSurvivesFailure ==
    /\ [](\A t \in Workers :
            (is_connected /\ op[t] = "bulk_control_device" /\ pc[t] = "done") =>
                Len(log[t]) = Len(WritesOwed(args[t], Len(args[t]))))
    /\ [][\A t \in Workers :
            (pc[t] = "bulk_write" /\ faults'[t] > faults[t]) =>
                (pc'[t] = "bulk_commands" /\ i'[t] = i[t] + 1)]_vars

C5_Witness ==
    \E t \in Workers :
        /\ op[t] = "bulk_control_device"
        /\ pc[t] = "done"
        /\ Len(args[t]) = 2
        /\ faults[t] = 2
        /\ Len(log[t]) = 2

\* C6: control_device answers an unrecognised action with an error and
\* issues no bus transaction, whatever the other fields and whether or not
\* the transport is connected.
C6_InvalidActionNoBus ==
    \A t \in Workers :
        (op[t] = "control_device"
            /\ args[t].action \notin {"coil", "temp", "fan_speed"}) =>
            /\ pc[t] = "done"
            /\ resp[t].status = "error"
            /\ log[t] = <<>>
            /\ \A b \in bus : b.by # t

C6_Witness ==
    \E t \in Workers :
        /\ is_connected
        /\ op[t] = "control_device"
        /\ args[t].action = "swing"
        /\ pc[t] = "done"

\* C7: with a transport that did not connect, no bus transaction is ever
\* issued by any endpoint or background task, control requests (single and
\* bulk) answer with an error, and a bulk control request starts no
\* background work.
C7_DisconnectedNeverTouchesBus ==
    ~is_connected =>
        /\ bus = {}
        /\ \A t \in Workers :
              /\ log[t] = <<>>
              /\ pc[t] \notin BusPcs \cup {"bulk_commands"}
              /\ op[t] \in {"control_device", "bulk_control_device"} =>
                    (pc[t] = "done" /\ resp[t].status = "error")

C7_Witness ==
    /\ ~is_connected
    /\ runs_done >= 1
    /\ \E t, u \in Workers :
          /\ op[t] = "bulk_control_device" /\ pc[t] = "done"
          /\ op[u] = "control_device" /\ pc[u] = "done"

\* C8: with a connected transport a single command with a recognised
\* action makes exactly one bus write, a coil write for coil and a register
\* write for temp and fan_speed, to the command's address, value and unit.
C8_OneWritePerCommand ==
    \A t \in Workers :
        (is_connected /\ op[t] = "control_device"
            /\ args[t].action \in {"coil", "temp", "fan_speed"}) =>
            /\ Len(log[t]) = 1
            /\ log[t][1].fn = IF args[t].action = "coil"
                              THEN "write_coil" ELSE "write_register"
            /\ WritesIssued(log[t]) = WritesOwed(<<args[t]>>, 1)

C8_Witness ==
    \E t \in Workers :
        /\ is_connected
        /\ op[t] = "control_device"
        /\ args[t].action = "temp"
        /\ pc[t] = "done"

\* C9: with a connected transport and a recognised action, control_device
\* returns a response with status and message, and the status is success
\* exactly when the write did not fail (no error response, no raised fault).
C9_StatusFollowsWrite ==
    \A t \in Workers :
        (is_connected /\ op[t] = "control_device" /\ pc[t] = "done"
            /\ args[t].action \in {"coil", "temp", "fan_speed"}) =>
            /\ DOMAIN resp[t] = {"status", "message"}
            /\ resp[t].status \in {"success", "error"}
            /\ resp[t].status = "success" <=> faults[t] = 0

C9_Witness ==
    \E t \in Workers :
        /\ is_connected
        /\ op[t] = "control_device"
        /\ pc[t] = "done"
        /\ faults[t] = 1
        /\ resp[t].status = "error"

\* The reference formulas: floor((a - base) / 156) + 1.
RefVentFromTemp(a) == ((a - 1) \div 156) + 1

RefVentFromSpeed(a) == ((a - 36) \div 156) + 1

\* C10: for every pair of integer addresses, negative ones included, the
\* two vent values a bulk status run computes equal the reference formulas
\* floor((tempAddress - 1) / 156) + 1 and floor((speedAddress - 36) / 156) + 1.
C10_VentFormulas ==
    \A t \in Workers :
        vent[t] # None =>
            LET v == vent[t][1]
            IN  /\ v.vent_from_temp = RefVentFromTemp(args[t].temp[v.i])
                /\ v.vent_from_speed = RefVentFromSpeed(args[t].speed[v.i])

\* An entry of a snapshot that carries the error marker.
IsErrorEntry(e) == "message" \in DOMAIN e

\* An entry of a snapshot that carries a unit's status.
IsStatusEntry(e) == DOMAIN e = {"slave_id", "Status", "Temp", "Speed", "vent_number"}

\* C11: in every stored snapshot a result's vent_number is non-null only
\* if the vent derived from its query's temp address equals the vent
\* derived from its speed address, and is then that common value; when the
\* two differ the result still carries Status, Temp and Speed with a null
\* vent_number, whatever the other results of the snapshot are.
C11_VentCrossCheck ==
    completed # None =>
        LET run == completed[1]
        IN  /\ bulk_results = {<<"last_run", run.results>>}
            /\ \A k \in 1..Len(run.results) :
                   LET e == run.results[k]
                   IN  IF IsErrorEntry(e)
                       THEN e.vent_number = None
                       ELSE LET byTemp == VentFromTemp(run.request.temp[k])
                                bySpeed == VentFromSpeed(run.request.speed[k])
                            IN  /\ IsStatusEntry(e)
                                /\ e.vent_number # None =>
                                       /\ byTemp = bySpeed
                                       /\ e.vent_number = Some(byTemp)
                                /\ byTemp # bySpeed => e.vent_number = None

\* A stored snapshot whose first result has vent number 1 and whose second
\* result, of a query with addresses in different blocks, has the unit's
\* status and no vent number.
C11_Witness ==
    /\ completed # None
    /\ Len(completed[1].results) = 2
    /\ completed[1].request.temp = <<TempBase, TempBase>>
    /\ completed[1].request.speed = <<SpeedBase, SpeedBase + VentBlock>>
    /\ IsStatusEntry(completed[1].results[1])
    /\ completed[1].results[1].vent_number = Some(1)
    /\ IsStatusEntry(completed[1].results[2])
    /\ completed[1].results[2].Status = 1
    /\ completed[1].results[2].vent_number = None

\* Worker t's bulk status run reaches line 198 in this step.
RunCompletes(t) ==
    op[t] = "get_bulk_device_data" /\ pc[t] = "fetch" /\ pc'[t] = "done"

\* Every array of the request has an element for every query.
WellFormed(request) ==
    /\ Len(request.on) = Len(request.slave_id)
    /\ Len(request.temp) = Len(request.slave_id)
    /\ Len(request.speed) = Len(request.slave_id)

\* The list stored under "last_run".
Snapshot(d) == (CHOOSE p \in d : p[1] = "last_run")[2]

IsDiscreteRead(tx) == tx.fn = "read_discrete_inputs"

\* The units whose status was polled by the calls in lg, in call order.
UnitsPolled(lg) ==
    LET reads == SelectSeq(lg, IsDiscreteRead)
    IN  [k \in 1..Len(reads) |-> reads[k].slave]

\* C12: a bulk status run over N queries polls all N units and stores a
\* snapshot of exactly N results in submission order, result i carrying
\* slave_id[i], even when the transport call of one or more queries errors.
C12_OneResultPerQuery ==
    [][\A t \in Workers :
          (RunCompletes(t) /\ WellFormed(args[t])) =>
              /\ Len(Snapshot(bulk_results')) = Len(args[t].slave_id)
              /\ \A k \in 1..Len(args[t].slave_id) :
                     Snapshot(bulk_results')[k].slave_id = args[t].slave_id[k]
              /\ is_connected => UnitsPolled(log[t]) = args[t].slave_id]_vars

\* A completed run over units 1 and 2 whose transport calls failed for
\* both queries.
C12_Witness ==
    \E t \in Workers :
        /\ op[t] = "get_bulk_device_data"
        /\ pc[t] = "done"
        /\ args[t].slave_id = <<1, 2>>
        /\ WellFormed(args[t])
        /\ UnitsPolled(log[t]) = <<1, 2>>
        /\ faults[t] >= 2
        /\ Len(Snapshot(bulk_results)) = 2
        /\ IsErrorEntry(Snapshot(bulk_results)[1])
        /\ IsErrorEntry(Snapshot(bulk_results)[2])

ReadPcs == {"read_discrete", "read_temp", "read_speed"}

\* A read of worker t's bulk status run raises in this step, so that
\* get_device_data returns its error variant.
ReadRaises(t) ==
    /\ op[t] = "get_bulk_device_data"
    /\ pc[t] \in ReadPcs
    /\ pc'[t] # pc[t]
    /\ last_reply'[t] = "exception"

\* Worker t's run, whose previous query failed, takes its next step with
\* queries left.
ResumesAfterError(t) ==
    /\ op[t] = "get_bulk_device_data"
    /\ pc[t] = "fetch"
    /\ last_reply[t] = "exception"
    /\ i[t] <= LoopEnd(args[t])
    /\ ~IndexMissing(args[t], i[t])
    /\ pc'[t] # pc[t]

\* C13: when the status read of one query of a bulk status run surfaces an
\* error, that query's result carries the error marker in place of the
\* status fields, with a null vent_number, and the run goes on to the
\* remaining queries.
C13_ReadErrorMarked ==
    [][\A t \in Workers :
          /\ ReadRaises(t) =>
                /\ Len(results'[t]) = Len(results[t]) + 1
                /\ SubSeq(results'[t], 1, Len(results[t])) = results[t]
                /\ LET e == results'[t][Len(results'[t])]
                   IN  /\ DOMAIN e = {"slave_id", "Status", "message", "vent_number"}
                       /\ e.slave_id = args[t].slave_id[i[t]]
                       /\ e.Status = "error"
                       /\ e.vent_number = None
                /\ pc'[t] = "fetch"
                /\ i'[t] = i[t] + 1
          /\ ResumesAfterError(t) =>
                /\ pc'[t] = "read_discrete"
                /\ log'[t] = Append(log[t],
                                    ReadDiscreteTx(args[t].on[i[t]],
                                                   args[t].slave_id[i[t]]))]_vars

\* A stored snapshot whose first result is the error marker of a read that
\* raised and whose second result is the status of the next unit.
C13_Witness ==
    /\ completed # None
    /\ completed[1].request.slave_id = <<1, 2>>
    /\ Len(completed[1].results) = 2
    /\ completed[1].results[1] = ErrorEntry(1, "'Temp'")
    /\ IsStatusEntry(completed[1].results[2])
    /\ completed[1].results[2].slave_id = 2

\* The three reads of a status read of query q, in call order.
ExpectedReads(q) ==
    <<ReadDiscreteTx(q.on, q.slave_id),
      ReadInputTx(q.temp, q.slave_id),
      ReadInputTx(q.speed, q.slave_id)>>

\* A response of get_device_data with the three status fields.
IsFullStatus(r) == DOMAIN r = {"Status", "Temp", "Speed"}

\* The reads get_device_data has issued when it is at pc.
ReadsIssuedAt(p) ==
    CASE p = "read_discrete" -> 1
      [] p = "read_temp" -> 2
      [] p = "read_speed" -> 3
      [] OTHER -> 0

\* The reads of a status read go to one unit in the order discrete input,
\* temperature register, speed register.
ReadsInOrder ==
    \A t \in Workers :
        (op[t] = "get_device_data" /\ pc[t] # "idle" /\ is_connected) =>
            /\ Len(log[t]) <= 3
            /\ log[t] = SubSeq(ExpectedReads(args[t]), 1, Len(log[t]))
            /\ pc[t] \in ReadPcs => Len(log[t]) = ReadsIssuedAt(pc[t])

\* Worker t's status read gets the reply of a read in this step.
ReadReturns(t) ==
    op[t] = "get_device_data" /\ pc[t] \in ReadPcs /\ pc'[t] # pc[t]

\* C14 as stated: with a connected transport a status read issues the
\* three reads in order against one unit and, whichever of them errors,
\* performs all three and hands its caller a full Status/Temp/Speed result.
C14_NeverAborted ==
    /\ ReadsInOrder
    /\ \A t \in Workers :
           (op[t] = "get_device_data" /\ pc[t] = "done" /\ is_connected) =>
               /\ Len(log[t]) = 3
               /\ IsFullStatus(resp[t])

\* C14, amended: with a connected transport a status read issues its reads
\* in the order discrete input, temperature register, speed register
\* against one unit; a read answered with an error response reports only
\* its own field as 0 and the remaining reads are still performed, so that
\* the caller receives a full Status/Temp/Speed result whenever no read
\* raises; a read that raises ModbusException ends the status read at once
\* with the error variant, the remaining reads not performed.
C14_ErrorResponseZeroesField ==
    /\ []ReadsInOrder
    /\ [][\A t \in Workers :
            ReadReturns(t) =>
                /\ last_reply'[t] = "exception" =>
                      /\ resp'[t] = ReadErrorStatus
                      /\ pc'[t] = "done"
                      /\ log'[t] = log[t]
                /\ (last_reply'[t] # "exception" /\ pc[t] = "read_discrete") =>
                      /\ pc'[t] = "read_temp"
                      /\ Len(local'[t]) = 1
                      /\ last_reply'[t] = "error" => local'[t][1] = 0
                /\ (last_reply'[t] # "exception" /\ pc[t] = "read_temp") =>
                      /\ pc'[t] = "read_speed"
                      /\ Len(local'[t]) = 2
                      /\ local'[t][1] = local[t][1]
                      /\ last_reply'[t] = "error" => local'[t][2] = Decimal(0)
                /\ (last_reply'[t] # "exception" /\ pc[t] = "read_speed") =>
                      /\ pc'[t] = "done"
                      /\ Len(log[t]) = 3
                      /\ IsFullStatus(resp'[t])
                      /\ resp'[t].Status = local[t][1]
                      /\ resp'[t].Temp = local[t][2]
                      /\ last_reply'[t] = "error" => resp'[t].Speed = 0]_vars

\* A status read whose temperature read alone was answered with an error
\* response: Temp is 0, Status and Speed are the values read.
C14_Witness ==
    \E t \in Workers :
        /\ op[t] = "get_device_data"
        /\ pc[t] = "done"
        /\ is_connected
        /\ faults[t] = 1
        /\ Len(log[t]) = 3
        /\ resp[t] = [Status |-> 1, Temp |-> Decimal(0), Speed |-> 205]

\* The bulk status runs that have issued a read and not yet stored their
\* snapshot.
RunsReading ==
    {t \in Workers : /\ op[t] = "get_bulk_device_data"
                     /\ pc[t] \in FetchPcs
                     /\ log[t] # <<>>}

\* C15: a bulk status run submitted while another is in flight is queued
\* behind it: its reads begin only after the earlier run has stored its
\* snapshot, so the reads of two runs never alternate on the bus.
C15_RunsQueued == Cardinality(RunsReading) <= 1

\* Worker t's bulk status run is under way.
RunStarted(t) == op[t] = "get_bulk_device_data" /\ pc[t] \in FetchPcs

\* Worker t's bulk status run has stored its snapshot.
RunStored(t) ==
    /\ op[t] = "get_bulk_device_data"
    /\ pc[t] = "done"
    /\ completed # None
    /\ completed[1].request = args[t]
    /\ Len(completed[1].results) = Len(args[t].slave_id)

\* Worker t's batch is under way.
BatchStarted(t) ==
    op[t] = "bulk_control_device" /\ pc[t] \in {"bulk_commands", "bulk_write"}

\* Worker t's batch has gone through its last command.
BatchFinished(t) ==
    /\ op[t] = "bulk_control_device"
    /\ pc[t] = "done"
    /\ Len(log[t]) = Len(WritesOwed(args[t], Len(args[t])))

\* C16: under fair scheduling and a transport whose every call returns,
\* each started bulk status run eventually stores its snapshot and each
\* started batch eventually finishes its last command.
C16_JobsFinish ==
    \A t \in Workers :
        /\ RunStarted(t) ~> RunStored(t)
        /\ BatchStarted(t) ~> BatchFinished(t)

\* A batch of two commands that has finished although a write failed,
\* beside a run of two queries that has stored its snapshot although a
\* read raised.
C16_Witness ==
    \E t, u \in Workers :
        /\ BatchFinished(t)
        /\ Len(args[t]) = 2
        /\ faults[t] >= 1
        /\ RunStored(u)
        /\ Len(args[u].slave_id) = 2
        /\ faults[u] >= 1

\* C17: only the completion of a bulk status run changes bulk_results;
\* get_bulk_results, control_device, bulk_control_device,
\* process_bulk_commands, get_device_data and the submission of a run
\* leave it as it is, and get_bulk_results performs no bus transaction.
C17_OnlyCompletionWrites ==
    [][/\ bulk_results' # bulk_results =>
              \E t \in Workers :
                  /\ RunCompletes(t)
                  /\ bulk_results' = {<<"last_run", results[t]>>}
       /\ \A t \in Workers :
              ReadsStore(t) =>
                  /\ bus' = bus
                  /\ log'[t] = <<>>
                  /\ pc'[t] = "done"]_vars

\* With a snapshot stored, one worker has read it while another has
\* carried out a write for control_device.
C17_Witness ==
    \E t, u \in Workers :
        /\ bulk_results # {}
        /\ op[t] = "get_bulk_results"
        /\ pc[t] = "done"
        /\ resp[t] = bulk_results
        /\ op[u] = "control_device"
        /\ pc[u] = "done"
        /\ log[u] # <<>>

\* C18: under any interleaving of concurrent bulk status runs the stored
\* snapshot is the complete result list of exactly one run, the one that
\* completed most recently: a run that completes replaces the snapshot by
\* its own list, one entry per query in that run's query order, and no
\* step of a run still in flight touches it.
C18_SnapshotOfOneRun ==
    /\ [](completed # None =>
            /\ Snapshot(bulk_results) = completed[1].results
            /\ Len(Snapshot(bulk_results)) = Len(completed[1].request.slave_id)
            /\ \A k \in 1..Len(Snapshot(bulk_results)) :
                   Snapshot(bulk_results)[k].slave_id
                       = completed[1].request.slave_id[k])
    /\ [][\A t \in Workers :
            IF RunCompletes(t)
            THEN /\ bulk_results' = {<<"last_run", results[t]>>}
                 /\ completed' = Some([results |-> results[t],
                                        slave_id |-> args[t].slave_id,
                                        request |-> args[t]])
            ELSE (\A u \in Workers : ~RunCompletes(u)) =>
                     bulk_results' = bulk_results]_vars

\* Two runs have completed; the snapshot is the two status results of the
\* one whose reads all succeeded, with nothing of the run that had a read
\* fail.
C18_Witness ==
    \E t, u \in Workers :
        /\ t # u
        /\ runs_done = 2
        /\ op[t] = "get_bulk_device_data"
        /\ pc[t] = "done"
        /\ op[u] = "get_bulk_device_data"
        /\ pc[u] = "done"
        /\ completed[1].request = args[t]
        /\ Len(Snapshot(bulk_results)) = 2
        /\ faults[t] = 0
        /\ faults[u] >= 1
        /\ \A k \in 1..2 : IsStatusEntry(Snapshot(bulk_results)[k])

\* The units of the first n queries that have all three addresses, in
\* query order.
RECURSIVE UnitsOwed(_, _)
UnitsOwed(request, n) ==
    IF n = 0
    THEN <<>>
    ELSE IF IndexMissing(request, n)
         THEN UnitsOwed(request, n - 1)
         ELSE Append(UnitsOwed(request, n - 1), request.slave_id[n])

\* Worker t's run passes a query that lacks an address in this step.
SkipsIndex(t) ==
    /\ op[t] = "get_bulk_device_data"
    /\ pc[t] = "fetch"
    /\ i[t] <= LoopEnd(args[t])
    /\ IndexMissing(args[t], i[t])
    /\ i'[t] # i[t]

\* C19: a bulk status run whose on, temp or speed array is shorter than
\* slave_id still completes: its snapshot has len(slave_id) entries, every
\* index that lacks an address has the error marker with a null
\* vent_number and costs no bus read, and the entries of the complete
\* indexes are what they are in a well-formed request.
C19_ShortArraysStillComplete ==
    [][\A t \in Workers :
          /\ SkipsIndex(t) =>
                /\ bus' = bus
                /\ log' = log
                /\ results'[t] = Append(results[t],
                                        ErrorEntry(args[t].slave_id[i[t]],
                                                   "list index out of range"))
                /\ i'[t] = i[t] + 1
                /\ pc'[t] = "fetch"
          /\ (RunCompletes(t) /\ ~WellFormed(args[t])) =>
                LET snap == Snapshot(bulk_results')
                    request == args[t]
                IN  /\ Len(snap) = Len(request.slave_id)
                    /\ is_connected =>
                           UnitsPolled(log[t]) = UnitsOwed(request, Len(request.slave_id))
                    /\ \A k \in 1..Len(request.slave_id) :
                           /\ snap[k].slave_id = request.slave_id[k]
                           /\ IF IndexMissing(request, k)
                              THEN /\ IsErrorEntry(snap[k])
                                   /\ snap[k].Status = "error"
                                   /\ snap[k].vent_number = None
                              ELSE \/ snap[k] = ErrorEntry(request.slave_id[k], "'Temp'")
                                   \/ /\ IsStatusEntry(snap[k])
                                      /\ snap[k].vent_number
                                             = VentNumber(request.temp[k],
                                                          request.speed[k])]_vars

\* A stored snapshot of a request for units 1 and 2 whose `on` array has
\* one element: the status of unit 1 with its vent number, then the error
\* marker for unit 2, which was never polled.
C19_Witness ==
    \E t \in Workers :
        /\ is_connected
        /\ op[t] = "get_bulk_device_data"
        /\ pc[t] = "done"
        /\ args[t].slave_id = <<1, 2>>
        /\ Len(args[t].on) = 1
        /\ UnitsPolled(log[t]) = <<1>>
        /\ Len(Snapshot(bulk_results)) = 2
        /\ IsStatusEntry(Snapshot(bulk_results)[1])
        /\ Snapshot(bulk_results)[1].vent_number = Some(1)
        /\ Snapshot(bulk_results)[2] = ErrorEntry(2, "list index out of range")

====
